---- MODULE Spec2Model ----
(***************************************************************************)
(* Model of the two Flask services of the repository:                      *)
(*   route.py  POST /plan_route  (proximity filter, date-seeded capacity,  *)
(*             emergency-first selection, leg distances)                   *)
(*   app.py    POST /process, POST /patients  (next-visit date, remaining  *)
(*             days, geocoding)                                            *)
(*                                                                         *)
(* Units.  Coordinates are integers in micro-degrees.  Distances are       *)
(* integers in millimetres, the CEILING of the kilometre value that        *)
(* calculate_distance returns, so that "distance <= 5" of the source is    *)
(* exactly "distance <= 5000000" here.  Calendar dates are proleptic       *)
(* Gregorian ordinals (date.toordinal) or [year, month, day] records.      *)
(***************************************************************************)
EXTENDS Integers, Sequences, FiniteSets, TLC

VARIABLES clock, rng, pc, request, frame, response, enriched

vars == <<clock, rng, pc, request, frame, response, enriched>>

(***************************************************************************)
(* Bounds of the model.                                                    *)
(***************************************************************************)
MaxPatients == 5      \* patients in one /plan_route body
MaxOffSite == 2       \* of them, how many are not at the Near site
MaxDays == 1          \* midnights the clock may pass
MaxThreads == 2       \* worker threads of the threaded server
MaxConcPatients == 1  \* patients in a body of the concurrent specification
MaxRows == 2          \* rows in one /process or /patients body

Threads == 1..MaxThreads

Min(a, b) == IF a <= b THEN a ELSE b

(***************************************************************************)
(* The calendar, as datetime / pandas compute it.                          *)
(***************************************************************************)
IsLeap(year) == year % 4 = 0 /\ (year % 100 # 0 \/ year % 400 = 0)

DaysInMonth(year, month) ==
    IF month = 2 THEN (IF IsLeap(year) THEN 29 ELSE 28)
    ELSE IF month \in {4, 6, 9, 11} THEN 30 ELSE 31

DaysBeforeYear(year) ==
    LET y == year - 1 IN y * 365 + (y \div 4) - (y \div 100) + (y \div 400)

RECURSIVE DaysBeforeMonth(_, _)
DaysBeforeMonth(year, month) ==
    IF month = 1 THEN 0
    ELSE DaysBeforeMonth(year, month - 1) + DaysInMonth(year, month - 1)

\* date(y, m, d).toordinal(); pd.to_datetime of a 'YYYY-MM-DD' string
ToOrdinal(d) == DaysBeforeYear(d.year) + DaysBeforeMonth(d.year, d.month) + d.day

RECURSIVE MonthOfYearDay(_, _, _)
MonthOfYearDay(year, month, n) ==
    IF n < DaysInMonth(year, month) THEN [year |-> year, month |-> month, day |-> n + 1]
    ELSE MonthOfYearDay(year, month + 1, n - DaysInMonth(year, month))

\* date.fromordinal(n); strftime('%Y-%m-%d') of the timestamp at ordinal n
FromOrdinal(ordinal) ==
    LET n0   == ordinal - 1
        n400 == n0 \div 146097
        r400 == n0 % 146097
        n100 == r400 \div 36524
        r100 == r400 % 36524
        n4   == r100 \div 1461
        r4   == r100 % 1461
        n1   == r4 \div 365
        r1   == r4 % 365
        year == n400 * 400 + n100 * 100 + n4 * 4 + n1 + 1
    IN IF n1 = 4 \/ n100 = 4
       THEN [year |-> year - 1, month |-> 12, day |-> 31]
       ELSE MonthOfYearDay(year, 1, r1)

Date(y, m, d) == [year |-> y, month |-> m, day |-> d]

\* The day the servers are started on.
StartDay == ToOrdinal(Date(2024, 3, 3))

(***************************************************************************)
(* route.py: coordinates and calculate_distance.                           *)
(***************************************************************************)
None == 999999999   \* JSON null; no coordinate has this value

Doc  == <<37500000, 127020000>>   \* (37.50, 127.02)
Near == <<37509000, 127020000>>   \* 1.0007543398012493 km from Doc
Edge == <<37520050, 127070739>>   \* 4.999999778714045 km from Doc
Far  == <<37520050, 127070741>>   \* 5.000157681648918 km from Doc
NoLocation == <<None, None>>      \* [null, null]: geocoding found nothing

TypeError == -1    \* radians(None) raises; no distance is negative

\* R * c of the haversine formula at the coordinates above, in millimetres
\* (ceiling).  The formula is symmetric in its two points and 0 on equal
\* points; the values are those the source computes in IEEE doubles.
Haversine(p, q) ==
    CASE p = q -> 0
      [] {p, q} = {Doc, Near}  -> 1000755
      [] {p, q} = {Doc, Edge}  -> 5000000
      [] {p, q} = {Doc, Far}   -> 5000158
      [] {p, q} = {Near, Edge} -> 4640778
      [] {p, q} = {Near, Far}  -> 4640948
      [] {p, q} = {Edge, Far}  -> 177

calculate_distance(lat1, lon1, lat2, lon2) ==
    IF None \in {lat1, lon1, lat2, lon2} THEN TypeError
    ELSE Haversine(<<lat1, lon1>>, <<lat2, lon2>>)

Radius == 5000000   \* 5 km

within_radius_strict(distance) == distance < Radius

within_radius(distance) == distance <= Radius


(***************************************************************************)
(* Results of a call: a value, or the exception that left the call.        *)
(***************************************************************************)
Ok(v) == [raised |-> "", value |-> v]

Raise(e) == [raised |-> e, value |-> <<>>]

\* xs[:k] for k >= 0
Slice(xs, k) == SubSeq(xs, 1, Min(k, Len(xs)))

(***************************************************************************)
(* route(): the proximity filter.                                          *)
(***************************************************************************)
RECURSIVE nearby_loop(_, _, _)
nearby_loop(doctor_location, patients_data, nearby_patients) ==
    IF patients_data = <<>> THEN Ok(nearby_patients)
    ELSE LET patient  == Head(patients_data)
             distance == calculate_distance(doctor_location[1], doctor_location[2],
                                            patient.location[1], patient.location[2])
         IN IF distance = TypeError THEN Raise("TypeError")
            ELSE nearby_loop(doctor_location, Tail(patients_data),
                             IF within_radius(distance)
                             THEN Append(nearby_patients, patient)
                             ELSE nearby_patients)

(***************************************************************************)
(* route(): the capacity draw.  random is one generator per process; its   *)
(* state is the seed it was last given and the number of 32-bit outputs    *)
(* taken since.  MTWords(seed) are the successive getrandbits(3) results   *)
(* of CPython's generator after random.seed(seed).                         *)
(***************************************************************************)
date_seed(current_date) ==
    current_date.year * 10000 + current_date.month * 100 + current_date.day

MTWords(seed) ==
    CASE seed = 20240303 -> <<3, 6, 1, 1, 4, 4, 0, 1, 2, 1, 3, 7>>
      [] seed = 20240304 -> <<7, 0, 7, 7, 2, 0, 7, 4, 1, 0, 3, 2>>
      [] seed = 20240305 -> <<7, 3, 1, 5, 2, 7, 7, 4, 5, 3, 4, 0>>
      [] seed = 20240306 -> <<6, 2, 1, 5, 4, 4, 1, 4, 0, 2, 4, 7>>

\* randint(4, 7) = 4 + _randbelow(4); _randbelow(4) takes getrandbits(3)
\* until the result is below 4
RandLow == 4

RandHigh == 7

RandWidth == RandHigh - RandLow + 1

(***************************************************************************)
(* route(): the selection.                                                 *)
(***************************************************************************)
select_emergency_sliced(nearby_patients, emergency_calls, total_patients_needed) ==
    LET emergency_patients ==
            SelectSeq(nearby_patients, LAMBDA p : p.patientid \in emergency_calls)
        regular_patients ==
            SelectSeq(nearby_patients, LAMBDA p : p.patientid \notin emergency_calls)
        remaining_slots == total_patients_needed - Len(emergency_patients)
    IN IF Len(emergency_patients) >= total_patients_needed
       THEN Slice(emergency_patients, total_patients_needed)
       ELSE IF Len(emergency_patients) > 0
            THEN emergency_patients \o Slice(regular_patients, remaining_slots)
            ELSE Slice(nearby_patients, total_patients_needed)

select_regular_unsliced(nearby_patients, emergency_calls, total_patients_needed) ==
    LET emergency_patients ==
            SelectSeq(nearby_patients, LAMBDA p : p.patientid \in emergency_calls)
        regular_patients ==
            SelectSeq(nearby_patients, LAMBDA p : p.patientid \notin emergency_calls)
    IN IF Len(emergency_patients) >= total_patients_needed
       THEN emergency_patients
       ELSE IF Len(emergency_patients) > 0
            THEN emergency_patients \o Slice(regular_patients, total_patients_needed)
            ELSE Slice(nearby_patients, total_patients_needed)

select_nearby_unsliced(nearby_patients, emergency_calls, total_patients_needed) ==
    LET emergency_patients ==
            SelectSeq(nearby_patients, LAMBDA p : p.patientid \in emergency_calls)
        regular_patients ==
            SelectSeq(nearby_patients, LAMBDA p : p.patientid \notin emergency_calls)
        remaining_slots == total_patients_needed - Len(emergency_patients)
    IN IF Len(emergency_patients) >= total_patients_needed
       THEN emergency_patients
       ELSE IF Len(emergency_patients) > 0
            THEN emergency_patients \o Slice(regular_patients, remaining_slots)
            ELSE nearby_patients

select(nearby_patients, emergency_calls, total_patients_needed) ==
    LET emergency_patients ==
            SelectSeq(nearby_patients, LAMBDA p : p.patientid \in emergency_calls)
        regular_patients ==
            SelectSeq(nearby_patients, LAMBDA p : p.patientid \notin emergency_calls)
        remaining_slots == total_patients_needed - Len(emergency_patients)
    IN IF Len(emergency_patients) >= total_patients_needed
       THEN emergency_patients
       ELSE IF Len(emergency_patients) > 0
            THEN emergency_patients \o Slice(regular_patients, remaining_slots)
            ELSE Slice(nearby_patients, total_patients_needed)

(***************************************************************************)
(* calc_route_distance(): route_plan[0] of an empty plan raises.           *)
(***************************************************************************)
calc_route_distance_from_doctor(route_plan, doctor_location) ==
    IF route_plan = <<>> THEN Raise("IndexError")
    ELSE Ok([i \in 1..Len(route_plan) |->
                calculate_distance(doctor_location[1], doctor_location[2],
                                   route_plan[i].location[1], route_plan[i].location[2])])

calc_route_distance(route_plan, doctor_location) ==
    IF route_plan = <<>> THEN Raise("IndexError")
    ELSE LET first == calculate_distance(doctor_location[1], doctor_location[2],
                                         route_plan[1].location[1], route_plan[1].location[2])
             legs  == [i \in 1..(Len(route_plan) - 1) |->
                         calculate_distance(route_plan[i].location[1], route_plan[i].location[2],
                                            route_plan[i + 1].location[1], route_plan[i + 1].location[2])]
         IN Ok(<<first>> \o legs)

(***************************************************************************)
(* plan_route(): the responses.                                            *)
(***************************************************************************)
Success(route_plan, route_distances) ==
    [status |-> 200, route_plan |-> route_plan, route_distances |-> route_distances,
     total_patients |-> Len(route_plan), error |-> ""]

Failure(e) ==
    [status |-> 400, route_plan |-> <<>>, route_distances |-> <<>>,
     total_patients |-> 0, error |-> e]

NoResponse ==
    [status |-> 0, route_plan |-> <<>>, route_distances |-> <<>>,
     total_patients |-> 0, error |-> ""]

NoRequest == [doctor_location |-> Doc, patients |-> <<>>, emergency_calls |-> {}]

\* the locals of route() and plan_route() that outlive a step
NoFrame == [nearby_patients |-> <<>>, current_date |-> Date(1, 1, 1),
            total_patients_needed |-> 0, route_plan |-> <<>>]


(***************************************************************************)
(* The bodies a client posts to /plan_route.  Patient i has patientid i;   *)
(* sites[i] is its location.                                               *)
(***************************************************************************)
DoctorSites == {Doc, Near}

PatientSites == {Near, Edge, Far, NoLocation}

OffSite(sites) == Cardinality({i \in DOMAIN sites : sites[i] # Near})

Body(doctor_location, sites, emergency_calls) ==
    [doctor_location |-> doctor_location,
     patients        |-> [i \in DOMAIN sites |-> [patientid |-> i, location |-> sites[i]]],
     emergency_calls |-> emergency_calls]

(***************************************************************************)
(* app.py: process_patient_data().  A row is [patientid, visitDate,        *)
(* period, address]; visitDate is the [year, month, day] its string names. *)
(* geocoded[i] is what geolocator.geocode gave for row i: a location,      *)
(* NoLocation for None, GeocodeRaises for an exception.                    *)
(***************************************************************************)
Periods == {"Every 6 months", "Every 1 year", "Every 3 months", "Every 2 months",
            "Every 5 years"}

VisitDates == {Date(2024, 1, 1), Date(2023, 1, 1)}

GeocodeRaises == <<TypeError, TypeError>>

GeocodeResults == {Near, NoLocation, GeocodeRaises}

period_days(visit_freq) ==
    CASE visit_freq = "Every 6 months" -> 180
      [] visit_freq = "Every 1 year"   -> 365
      [] visit_freq = "Every 3 months" -> 90
      [] visit_freq = "Every 2 months" -> 60
      [] OTHER -> 0

calculate_next_visit(row) ==
    LET prev_visit_date == ToOrdinal(row.visitDate)
        next_visit_date == prev_visit_date + period_days(row.period)
    IN FromOrdinal(next_visit_date)

\* lines 57-70: the coordinates stored for one row
geocoded_location(result) ==
    IF result = GeocodeRaises \/ result = NoLocation THEN NoLocation ELSE result

process_patient_data(df, geocoded, today) ==
    [i \in DOMAIN df |->
        LET resDate == calculate_next_visit(df[i])
        IN [patientid      |-> df[i].patientid,
            visitDate      |-> df[i].visitDate,
            period         |-> df[i].period,
            address        |-> df[i].address,
            resDate        |-> resDate,
            remaining_days |-> ToOrdinal(resDate) - today,
            latitude       |-> geocoded_location(geocoded[i])[1],
            longitude      |-> geocoded_location(geocoded[i])[2]]]

Rows(n) ==
    [1..n -> [patientid : {7}, visitDate : VisitDates, period : Periods,
              address : {"Seoul"}]]

NoEnriched == [endpoint |-> "", status |-> 0, body |-> <<>>]

\* POST /process
process_data ==
    /\ enriched = NoEnriched
    /\ \E n \in 1..MaxRows : \E df \in Rows(n) : \E geocoded \in [1..n -> GeocodeResults] :
         enriched' = [endpoint |-> "/process", status |-> 200,
                      body |-> process_patient_data(df, geocoded, clock)]
    /\ UNCHANGED <<clock, rng, pc, request, frame, response>>

\* POST /patients
get_patient_list ==
    /\ enriched = NoEnriched
    /\ \E n \in 1..MaxRows : \E df \in Rows(n) : \E geocoded \in [1..n -> GeocodeResults] :
         LET processed_df == process_patient_data(df, geocoded, clock)
         IN enriched' = [endpoint |-> "/patients", status |-> 200,
                         body |-> [i \in DOMAIN processed_df |->
                                     [patientid      |-> processed_df[i].patientid,
                                      remaining_days |-> processed_df[i].remaining_days,
                                      location       |-> <<processed_df[i].latitude,
                                                           processed_df[i].longitude>>]]]
    /\ UNCHANGED <<clock, rng, pc, request, frame, response>>

\* the response is sent
EnrichedSent ==
    /\ enriched # NoEnriched
    /\ enriched' = NoEnriched
    /\ UNCHANGED <<clock, rng, pc, request, frame, response>>

(***************************************************************************)
(* State after the servers have started.                                   *)
(***************************************************************************)
Init ==
    /\ clock = StartDay
    /\ rng = [seed |-> 0, pos |-> 0]    \* never read before a random.seed
    /\ pc = [t \in Threads |-> "idle"]
    /\ request = [t \in Threads |-> NoRequest]
    /\ frame = [t \in Threads |-> NoFrame]
    /\ response = [t \in Threads |-> NoResponse]
    /\ enriched = NoEnriched

\* Midnight passes.
AdvanceDay ==
    /\ clock < StartDay + MaxDays
    /\ clock' = clock + 1
    /\ UNCHANGED <<rng, pc, request, frame, response, enriched>>

(***************************************************************************)
(* plan_route() on worker t.  The steps are separated where the shared     *)
(* generator is touched; everything between is local to the request.       *)
(***************************************************************************)
\* lines 73-32: read the body, filter by proximity, read the clock
Receive(t, body) ==
    /\ pc[t] = "idle"
    /\ request' = [request EXCEPT ![t] = body]
    /\ LET nearby == nearby_loop(body.doctor_location, body.patients, <<>>)
       IN IF nearby.raised # ""
          THEN /\ response' = [response EXCEPT ![t] = Failure(nearby.raised)]
               /\ pc' = [pc EXCEPT ![t] = "done"]
               /\ frame' = [frame EXCEPT ![t] = NoFrame]
          ELSE /\ frame' = [frame EXCEPT ![t] =
                               [nearby_patients |-> nearby.value,
                                current_date |-> FromOrdinal(clock),
                                total_patients_needed |-> 0,
                                route_plan |-> <<>>]]
               /\ pc' = [pc EXCEPT ![t] = "seed"]
               /\ UNCHANGED response
    /\ UNCHANGED <<clock, rng, enriched>>

PlanRoute(t, maxPatients, maxOffSite) ==
    /\ pc[t] = "idle"
    /\ \E n \in 0..maxPatients :
      \E sites \in [1..n -> PatientSites] :
        /\ OffSite(sites) <= maxOffSite
        /\ \E emergency_calls \in SUBSET (1..n) :
             \E doctor_location \in DoctorSites :
               Receive(t, Body(doctor_location, sites, emergency_calls))

\* line 33, with the generator left where it is when it already has today's seed
SeedOncePerDay(t) ==
    /\ pc[t] = "seed"
    /\ rng' = [seed |-> date_seed(frame[t].current_date),
               pos  |-> IF rng.seed = date_seed(frame[t].current_date) THEN rng.pos ELSE 0]
    /\ pc' = [pc EXCEPT ![t] = "draw"]
    /\ UNCHANGED <<clock, request, frame, response, enriched>>

\* line 33: random.seed(...)
Seed(t) ==
    /\ pc[t] = "seed"
    /\ rng' = [seed |-> date_seed(frame[t].current_date), pos |-> 0]
    /\ pc' = [pc EXCEPT ![t] = "draw"]
    /\ UNCHANGED <<clock, request, frame, response, enriched>>

\* lines 80-90: measure the plan, answer
Answer(route_plan, doctor_location) ==
    LET route_distances == calc_route_distance(route_plan, doctor_location)
    IN IF route_distances.raised # ""
       THEN Failure(route_distances.raised)
       ELSE Success(route_plan, route_distances.value)

\* line 34: one getrandbits(3) of randint(4, 7); a result of 4 or more is
\* thrown away and the next one taken.  With the capacity drawn, lines 37-46
\* select the plan and plan_route() answers.
Draw(t) ==
    /\ pc[t] = "draw"
    /\ rng.pos < Len(MTWords(rng.seed))
    /\ LET r == MTWords(rng.seed)[rng.pos + 1]
       IN /\ rng' = [rng EXCEPT !.pos = @ + 1]
          /\ IF r >= RandWidth
             THEN UNCHANGED <<pc, frame, response>>
             ELSE LET route_plan == select(frame[t].nearby_patients,
                                           request[t].emergency_calls, RandLow + r)
                  IN /\ frame' = [frame EXCEPT ![t].total_patients_needed = RandLow + r,
                                               ![t].route_plan = route_plan]
                     /\ response' = [response EXCEPT ![t] =
                                        Answer(route_plan, request[t].doctor_location)]
                     /\ pc' = [pc EXCEPT ![t] = "done"]
    /\ UNCHANGED <<clock, request, enriched>>

\* the response is sent; the worker takes the next request
Return(t) ==
    /\ pc[t] = "done"
    /\ pc' = [pc EXCEPT ![t] = "idle"]
    /\ request' = [request EXCEPT ![t] = NoRequest]
    /\ frame' = [frame EXCEPT ![t] = NoFrame]
    /\ response' = [response EXCEPT ![t] = NoResponse]
    /\ UNCHANGED <<clock, rng, enriched>>

(***************************************************************************)
(* Spec: the server handles one /plan_route request at a time.             *)
(***************************************************************************)
Next ==
    \/ PlanRoute(1, MaxPatients, MaxOffSite)
    \/ Seed(1)
    \/ Draw(1)
    \/ Return(1)
    \/ AdvanceDay

Spec == Init /\ [][Next]_vars

(***************************************************************************)
(* SpecConc: the threaded server; every worker runs plan_route().          *)
(***************************************************************************)
NextConc ==
    \/ \E t \in Threads : PlanRoute(t, MaxConcPatients, MaxConcPatients)
    \/ \E t \in Threads : Seed(t)
    \/ \E t \in Threads : Draw(t)
    \/ \E t \in Threads : Return(t)
    \/ AdvanceDay

SpecConc == Init /\ [][NextConc]_vars

(***************************************************************************)
(* SpecEnrich: the enrichment service.                                     *)
(***************************************************************************)
NextEnrich ==
    \/ process_data
    \/ get_patient_list
    \/ EnrichedSent
    \/ AdvanceDay

SpecEnrich == Init /\ [][NextEnrich]_vars

(***************************************************************************)
(* Vocabulary of the properties.  Patients are named by their position in  *)
(* the request body; Listed(patients, S) lists those at the positions S in *)
(* increasing position.                                                    *)
(***************************************************************************)
Rank(S, i) == Cardinality({k \in S : k <= i})

Listed(patients, S) ==
    [j \in 1..Cardinality(S) |-> patients[CHOOSE i \in S : Rank(S, i) = j]]

AllLocated(body) ==
    \A i \in DOMAIN body.patients : body.patients[i].location # NoLocation

InRange(body) ==
    {i \in DOMAIN body.patients :
        /\ body.patients[i].location # NoLocation
        /\ Haversine(body.doctor_location, body.patients[i].location) <= Radius}

Emergencies(body) ==
    {i \in InRange(body) : body.patients[i].patientid \in body.emergency_calls}

Regulars(body) == InRange(body) \ Emergencies(body)

\* the call on worker t has drawn its capacity and route() has returned
Routed(t) == pc[t] = "done" /\ frame[t].total_patients_needed # 0

RECURSIVE FirstBelow(_, _)
FirstBelow(words, i) ==
    IF words[i] < RandWidth THEN words[i] ELSE FirstBelow(words, i + 1)

\* the first randint(4, 7) after random.seed(seed)
FirstDraw(seed) == RandLow + FirstBelow(MTWords(seed), 1)

(***************************************************************************)
(* C1: a request with no patient, or with located patients none of which   *)
(* is within 5 km, is answered 200 with an empty route plan and an empty   *)
(* distance list.                                                          *)
(***************************************************************************)
C1_EmptyPlanSucceeds ==
    \A t \in Threads :
        (pc[t] = "done" /\ AllLocated(request[t]) /\ InRange(request[t]) = {})
            => response[t] = Success(<<>>, <<>>)

(***************************************************************************)
(* C2: when the emergency patients in range are at least as many as the    *)
(* capacity, the route plan is exactly those patients, in input order,     *)
(* all of them.                                                            *)
(***************************************************************************)
C2_EmergenciesUnsliced ==
    \A t \in Threads :
        (Routed(t)
         /\ Cardinality(Emergencies(request[t])) >= frame[t].total_patients_needed)
            => frame[t].route_plan
                 = Listed(request[t].patients, Emergencies(request[t]))

C2_Witness ==
    \E t \in Threads :
        /\ Routed(t)
        /\ Cardinality(Emergencies(request[t])) > frame[t].total_patients_needed
        /\ response[t].status = 200
        /\ response[t].total_patients > frame[t].total_patients_needed

(***************************************************************************)
(* C3: with at least one emergency patient in range but fewer than the     *)
(* capacity, the route plan is the emergency patients in input order, then *)
(* the first (capacity - emergencies) regular patients in range in input   *)
(* order, or all of them when they are fewer.                              *)
(***************************************************************************)
C3_EmergenciesThenRegulars ==
    \A t \in Threads :
        LET body  == request[t]
            slots == frame[t].total_patients_needed - Cardinality(Emergencies(body))
        IN (Routed(t) /\ Emergencies(body) # {} /\ slots > 0)
            => frame[t].route_plan
                 = Listed(body.patients, Emergencies(body))
                   \o Listed(body.patients,
                             {i \in Regulars(body) : Rank(Regulars(body), i) <= slots})

C3_Witness ==
    \E t \in Threads :
        LET body  == request[t]
            slots == frame[t].total_patients_needed - Cardinality(Emergencies(body))
        IN /\ Routed(t)
           /\ Emergencies(body) # {}
           /\ slots > 0
           /\ Cardinality(Regulars(body)) > slots
           /\ \E i \in Regulars(body) : \E j \in Emergencies(body) : i < j
           /\ response[t].status = 200

\* the example of the claim: P1 emergency, P2 regular in range, P3 out of
\* range, capacity 4, answered [P1, P2] with two distances
C3_Example ==
    \E t \in Threads :
        /\ Routed(t)
        /\ frame[t].total_patients_needed = 4
        /\ request[t] = Body(Doc, <<Near, Edge, Far>>, {1})
        /\ response[t].route_plan = SubSeq(request[t].patients, 1, 2)
        /\ Len(response[t].route_distances) = 2

(***************************************************************************)
(* C4: with no emergency patient in range, the route plan is the first     *)
(* min(capacity, number in range) patients in range, in input order.       *)
(***************************************************************************)
C4_PrefixOfNearby ==
    \A t \in Threads :
        LET body == request[t]
        IN (Routed(t) /\ Emergencies(body) = {})
            => frame[t].route_plan
                 = Listed(body.patients,
                          {i \in InRange(body) :
                              Rank(InRange(body), i) <= frame[t].total_patients_needed})

C4_Witness ==
    \E t \in Threads :
        /\ Routed(t)
        /\ Emergencies(request[t]) = {}
        /\ Cardinality(InRange(request[t])) > frame[t].total_patients_needed
        /\ response[t].status = 200
        /\ response[t].total_patients = frame[t].total_patients_needed

(***************************************************************************)
(* C5: for a non-empty route plan the distance list has one entry per      *)
(* stop: the first from the doctor to the first stop, each later one from  *)
(* the previous stop to the stop.                                          *)
(***************************************************************************)
C5_LegDistances ==
    \A t \in Threads :
        (Routed(t) /\ frame[t].route_plan # <<>>)
            => LET plan == frame[t].route_plan
                   legs == response[t].route_distances
               IN /\ response[t].status = 200
                  /\ Len(legs) = Len(plan)
                  /\ legs[1] = Haversine(request[t].doctor_location, plan[1].location)
                  /\ \A i \in 2..Len(plan) :
                        legs[i] = Haversine(plan[i - 1].location, plan[i].location)

C5_Witness ==
    \E t \in Threads :
        /\ Routed(t)
        /\ Len(response[t].route_distances) >= 3
        /\ response[t].route_distances[2] # 0
        /\ response[t].route_distances[1] # response[t].route_distances[2]
        /\ response[t].route_distances[3] # response[t].route_distances[1]

(***************************************************************************)
(* C6: the proximity filter keeps exactly the patients at most 5 km from   *)
(* the doctor, in input order; every stop of a route plan is one of them,  *)
(* unchanged.                                                              *)
(***************************************************************************)
C6_FilterWithinRadius ==
    \A t \in Threads :
        (pc[t] \in {"seed", "draw"} \/ Routed(t))
            => /\ frame[t].nearby_patients
                    = Listed(request[t].patients, InRange(request[t]))
               /\ \A k \in DOMAIN frame[t].route_plan :
                    \E i \in InRange(request[t]) :
                        frame[t].route_plan[k] = request[t].patients[i]

C6_Witness ==
    \E t \in Threads :
        /\ Routed(t)
        /\ request[t].doctor_location = Doc
        /\ \E i, j \in DOMAIN request[t].patients :
             /\ i < j
             /\ request[t].patients[i].location = Far
             /\ request[t].patients[j].location = Edge
             /\ \E k \in DOMAIN response[t].route_plan :
                    response[t].route_plan[k] = request[t].patients[j]
             /\ \A k \in DOMAIN response[t].route_plan :
                    response[t].route_plan[k] # request[t].patients[i]

(***************************************************************************)
(* C7: a request with a patient that has no location is answered 200, and  *)
(* no such patient is in the plan.                                         *)
(***************************************************************************)
C7_UnlocatedExcluded ==
    \A t \in Threads :
        (pc[t] = "done" /\ ~AllLocated(request[t]) /\ InRange(request[t]) # {})
            => /\ response[t].status = 200
               /\ \A k \in DOMAIN response[t].route_plan :
                    response[t].route_plan[k].location # NoLocation

(***************************************************************************)
(* C8: handled one at a time, every call draws the capacity that the seed  *)
(* year*10000 + month*100 + day of its date determines, between 4 and 7.   *)
(***************************************************************************)
C8_CapacityOfDate ==
    \A t \in Threads :
        Routed(t)
            => /\ frame[t].total_patients_needed
                    = FirstDraw(frame[t].current_date.year * 10000
                                + frame[t].current_date.month * 100
                                + frame[t].current_date.day)
               /\ frame[t].total_patients_needed \in 4..7

\* a call is about to draw from a generator that an earlier call of the same
\* day has seeded and drawn from
C8_Witness ==
    \E t \in Threads :
        /\ pc[t] = "seed"
        /\ rng.seed = date_seed(frame[t].current_date)
        /\ rng.pos > 0
        /\ frame[t].current_date = FromOrdinal(clock)

(***************************************************************************)
(* C9: handled concurrently, every call draws the capacity and selects the *)
(* plan it would alone.                                                    *)
(***************************************************************************)
C9_ConcurrentAsAlone ==
    \A t \in Threads :
        Routed(t)
            => LET alone == FirstDraw(date_seed(frame[t].current_date))
               IN /\ frame[t].total_patients_needed = alone
                  /\ frame[t].route_plan
                       = select(frame[t].nearby_patients, request[t].emergency_calls, alone)

(***************************************************************************)
(* C10: a row visited on 2024-01-01 with period "Every 1 year" gets the    *)
(* next visit 2025-01-01.                                                  *)
(***************************************************************************)
C10_OneYearLater ==
    enriched.endpoint = "/process"
        => \A i \in DOMAIN enriched.body :
             (enriched.body[i].visitDate = Date(2024, 1, 1)
              /\ enriched.body[i].period = "Every 1 year")
                => enriched.body[i].resDate = Date(2025, 1, 1)

====
